---------------------------- MODULE Spec2Model ----------------------------
(***************************************************************************)
(* Model of currency_converter.py: the rate provider get_rates, the        *)
(* converter convert and the pipeline main runs (get_rates, then convert). *)
(*                                                                         *)
(* Python floats are IEEE-754 binary64.  Their arithmetic is modelled bit  *)
(* for bit: a float is a sign, a 53-bit significand and an exponent, the   *)
(* significand held as little-endian limbs of 15 bits, and `/` and `*`     *)
(* round to nearest, ties to even, as the hardware does.                   *)
(***************************************************************************)
EXTENDS Integers, Sequences, FiniteSets, TLC

(***************************************************************************)
(* Evaluated(x) is TRUE for every x.  Operators take their arguments       *)
(* unevaluated; an operator that tests Evaluated(x) first works on the     *)
(* value of x from there on, which keeps the evaluation of a long          *)
(* computation shallow.                                                    *)
(***************************************************************************)
Evaluated(x) == x = x

(***************************************************************************)
(* Natural numbers of any size: little-endian sequences of limbs.          *)
(***************************************************************************)
LIMB == 2^15

Limb(a, i) == IF i <= Len(a) THEN a[i] ELSE 0

MaxOf(x, y) == IF x >= y THEN x ELSE y

MinOf(x, y) == IF x <= y THEN x ELSE y

RECURSIVE BNorm(_)
BNorm(a) ==
    IF Len(a) = 0 THEN a
    ELSE IF a[Len(a)] = 0 THEN BNorm(SubSeq(a, 1, Len(a) - 1))
    ELSE a

BIsZero(a) == BNorm(a) = <<>>

RECURSIVE BAddR(_, _, _, _)
BAddR(a, b, i, c) ==
    IF i > MaxOf(Len(a), Len(b))
    THEN (IF c = 0 THEN <<>> ELSE <<c>>)
    ELSE LET s == Limb(a, i) + Limb(b, i) + c
         IN  <<s % LIMB>> \o BAddR(a, b, i + 1, s \div LIMB)

BAdd(a, b) == IF Evaluated(a) /\ Evaluated(b) THEN BAddR(a, b, 1, 0) ELSE <<>>

\* a - b, for a >= b
RECURSIVE BSubR(_, _, _, _)
BSubR(a, b, i, c) ==
    IF i > Len(a) THEN <<>>
    ELSE LET d == a[i] - Limb(b, i) - c
         IN  IF d < 0 THEN <<d + LIMB>> \o BSubR(a, b, i + 1, 1)
             ELSE <<d>> \o BSubR(a, b, i + 1, 0)

BSub(a, b) ==
    IF Evaluated(a) /\ Evaluated(b) THEN BNorm(BSubR(a, b, 1, 0)) ELSE <<>>

\* -1, 0 or 1 as a < b, a = b, a > b
RECURSIVE BCmpR(_, _, _)
BCmpR(a, b, i) ==
    IF i = 0 THEN 0
    ELSE IF Limb(a, i) < Limb(b, i) THEN -1
    ELSE IF Limb(a, i) > Limb(b, i) THEN 1
    ELSE BCmpR(a, b, i - 1)

BCmp(a, b) ==
    IF Evaluated(a) /\ Evaluated(b) THEN BCmpR(a, b, MaxOf(Len(a), Len(b)))
    ELSE 0

\* a * k for one limb k
RECURSIVE BMulLimbR(_, _, _, _)
BMulLimbR(a, k, i, c) ==
    IF i > Len(a)
    THEN (IF c = 0 THEN <<>> ELSE <<c>>)
    ELSE LET p == a[i] * k + c
         IN  <<p % LIMB>> \o BMulLimbR(a, k, i + 1, p \div LIMB)

BMulLimb(a, k) ==
    IF Evaluated(a) /\ Evaluated(k) THEN BMulLimbR(a, k, 1, 0) ELSE <<>>

Zeros(n) == [j \in 1..n |-> 0]

RECURSIVE BMulR(_, _, _)
BMulR(a, b, i) ==
    IF i > Len(a) THEN <<>>
    ELSE BAdd(Zeros(i - 1) \o BMulLimb(b, a[i]), BMulR(a, b, i + 1))

BMul(a, b) ==
    IF Evaluated(a) /\ Evaluated(b) THEN BNorm(BMulR(a, b, 1)) ELSE <<>>

\* a * 2^n
BShl(a, n) == BNorm(Zeros(n \div 15) \o BMulLimb(a, 2^(n % 15)))

\* floor(a / 2^n)
BShr(a, n) ==
    LET w == n \div 15
        r == n % 15
    IN  IF w >= Len(a) THEN <<>>
        ELSE BNorm([j \in 1..(Len(a) - w) |->
                      (a[j + w] \div 2^r)
                      + (Limb(a, j + w + 1) % 2^r) * 2^(15 - r)])

RECURSIVE LimbBits(_)
LimbBits(x) == IF x = 0 THEN 0 ELSE 1 + LimbBits(x \div 2)

\* the number of bits of a: 0 for zero
BitLen(a) ==
    LET n == BNorm(a)
    IN  IF n = <<>> THEN 0 ELSE 15 * (Len(n) - 1) + LimbBits(n[Len(n)])

\* bit n of a, bit 0 the lowest
BBit(a, n) == (Limb(a, n \div 15 + 1) \div 2^(n % 15)) % 2

\* whether any of the n lowest bits of a is set
BLowSet(a, n) ==
    \/ \E j \in 1..MinOf(n \div 15, Len(a)) : a[j] # 0
    \/ Limb(a, n \div 15 + 1) % 2^(n % 15) # 0

BOne == <<1>>

\* the value of a number of at most two limbs
BSmall(a) == Limb(a, 1) + Limb(a, 2) * LIMB

\* the greatest q <= qhat with q * b <= r
RECURSIVE BFixDigit(_, _, _)
BFixDigit(qhat, b, r) ==
    IF BCmp(BMulLimb(b, qhat), r) > 0 THEN BFixDigit(qhat - 1, b, r) ELSE qhat

\* one step of long division in base LIMB: for r < b, the digit
\* floor(r * LIMB / b) and the remainder.  The digit is first estimated from
\* the 15 leading bits of b, which never underestimates it.
BDivDigitFix(r1, b, q) ==
    CASE Evaluated(q) -> [q |-> q, r |-> BSub(r1, BMulLimb(b, q))]

BDivDigitFrom(r1, b, sh) ==
    CASE Evaluated(r1) ->
        BDivDigitFix(r1, b,
            BFixDigit(MinOf(BSmall(BShr(r1, sh)) \div BSmall(BShr(b, sh)),
                            LIMB - 1), b, r1))

BDivDigit(r, b) == BDivDigitFrom(BNorm(<<0>> \o r), b, BitLen(b) - 15)

\* the digits q found so far (the lowest first) with one more digit d.q
BDivPush(st, d) == [q |-> <<d.q>> \o st.q, r |-> d.r]

\* n such steps, from the digits st.q found so far and the remainder st.r
\* they left
RECURSIVE BDivDigits(_, _, _)
BDivDigits(st, b, n) ==
    IF Evaluated(st) /\ n = 0 THEN st
    ELSE BDivDigits(BDivPush(st, BDivDigit(st.r, b)), b, n - 1)

BDivResult(last) == [q |-> BNorm(last.q), rem |-> last.r # <<>>]

\* floor(a * LIMB^n / b) and whether the division left a remainder, for
\* 0 < a < 2b and b of at least 15 bits
BDivShift(a, b, n) ==
    BDivResult(BDivDigits(IF BCmp(a, b) >= 0
                          THEN [q |-> <<1>>, r |-> BSub(a, b)]
                          ELSE [q |-> <<>>, r |-> BNorm(a)], b, n))

(***************************************************************************)
(* Python float: IEEE-754 binary64.  A finite float is (-1)^s * m * 2^e    *)
(* with m < 2^53 held in four limbs and e >= EMIN; it is kept in canonical *)
(* form (m >= 2^52 unless e = EMIN; zero is m = 0, e = 0), so that two     *)
(* records are equal exactly when the floats are the same float.           *)
(***************************************************************************)
PREC == 50 + 3

EMIN == 0 - 1074

EMAX == 1023 - 52

Pad4(m) == [j \in 1..4 |-> Limb(m, j)]

Dbl(s, m, e) == [cls |-> "fin", s |-> s, m |-> Pad4(m), e |-> e]

FZero(s) == Dbl(s, <<>>, 0)

FInf(s) == [cls |-> "inf", s |-> s, m |-> Pad4(<<>>), e |-> 0]

FNaN == [cls |-> "nan", s |-> 0, m |-> Pad4(<<>>), e |-> 0]

IsZero(x) == x.cls = "fin" /\ BIsZero(x.m)

\* a significand m of at most PREC bits and its exponent, as a float
FPack(s, m, e) ==
    IF BIsZero(m) THEN FZero(s)
    ELSE IF BitLen(m) + e > EMAX + PREC THEN FInf(s)
    ELSE Dbl(s, m, e)

\* rounding up may carry into bit PREC
FCarry(s, m1, e) ==
    IF BitLen(m1) > PREC THEN FPack(s, BShr(m1, 1), e + 1)
    ELSE FPack(s, m1, e)

\* ties to even: up when the dropped bits are more than half a unit, or
\* half a unit and the kept significand is odd
FRoundKept(s, kept, e, half, rest) ==
    FCarry(s, IF half /\ (rest \/ BBit(kept, 0) = 1) THEN BAdd(kept, BOne)
              ELSE kept, e)

\* the sh lowest bits of M are dropped
FRoundShift(s, M, E, sticky, sh) ==
    FRoundKept(s, BShr(M, sh), E + sh, BBit(M, sh - 1) = 1,
               BLowSet(M, sh - 1) \/ sticky)

\* M fits the significand: the canonical form is M shifted left by t
FExact(s, M, E, L) ==
    IF L + E > EMAX + PREC THEN FInf(s)
    ELSE Dbl(s, BShl(M, MinOf(PREC - L, E - EMIN)),
             E - MinOf(PREC - L, E - EMIN))

FRoundLen(s, M, E, sticky, L) ==
    IF L = 0 THEN FZero(s)
    ELSE IF MaxOf(L - PREC, EMIN - E) <= 0 THEN FExact(s, M, E, L)
    ELSE FRoundShift(s, M, E, sticky, MaxOf(L - PREC, EMIN - E))

\* the float nearest to (-1)^s * (M + f) * 2^E, ties to even, where the
\* fraction f is 0 when sticky is FALSE and some 0 < f < 1 otherwise
FRound(s, M, E, sticky) ==
    CASE Evaluated(M) -> FRoundLen(s, M, E, sticky, BitLen(M))

SignXor(a, b) == (a.s + b.s) % 2

\* IEEE-754 multiplication
FMul(a, b) ==
    IF a.cls = "nan" \/ b.cls = "nan" THEN FNaN
    ELSE IF a.cls = "inf" \/ b.cls = "inf"
    THEN (IF IsZero(a) \/ IsZero(b) THEN FNaN ELSE FInf(SignXor(a, b)))
    ELSE IF IsZero(a) \/ IsZero(b) THEN FZero(SignXor(a, b))
    ELSE FRound(SignXor(a, b), BMul(a.m, b.m), a.e + b.e, FALSE)

\* the quotient d of the significands, rounded
FDivRound(s, d, E) == CASE Evaluated(d) -> FRound(s, d.q, E, d.rem)

\* both significands shifted left (by la and lb) to PREC bits, then divided
FDivNorm(a, b, la, lb) ==
    FDivRound(SignXor(a, b), BDivShift(BShl(a.m, la), BShl(b.m, lb), 4),
              (a.e - la) - (b.e - lb) - 4 * 15)

\* IEEE-754 division by a divisor that is not zero
FDiv(a, b) ==
    IF a.cls = "nan" \/ b.cls = "nan" THEN FNaN
    ELSE IF a.cls = "inf"
    THEN (IF b.cls = "inf" THEN FNaN ELSE FInf(SignXor(a, b)))
    ELSE IF b.cls = "inf" \/ IsZero(a) THEN FZero(SignXor(a, b))
    ELSE FDivNorm(a, b, PREC - BitLen(a.m), PREC - BitLen(b.m))

\* Python's == on floats
FEq(a, b) ==
    /\ a.cls # "nan"
    /\ b.cls # "nan"
    /\ (a = b \/ (IsZero(a) /\ IsZero(b)))

(***************************************************************************)
(* Python values: t is the type, v the value.  A dict is a function from   *)
(* its keys (strings) to values, a list a sequence of values.              *)
(***************************************************************************)
PyNone == [t |-> "none", v |-> 0]

\* a variable not assigned yet
Unset == [t |-> "unset", v |-> 0]

PyFloat(d) == [t |-> "float", v |-> d]

PyStr(str) == [t |-> "str", v |-> str]

PyList(seq) == [t |-> "list", v |-> seq]

PyDict(f) == [t |-> "dict", v |-> f]

EmptyDict == PyDict([k \in {} |-> PyNone])

\* bool(x): the truth value `not x` tests
Truthy(x) ==
    CASE x.t = "none"  -> FALSE
      [] x.t = "float" -> ~IsZero(x.v)
      [] x.t = "str"   -> x.v # ""
      [] x.t = "list"  -> Len(x.v) > 0
      [] x.t = "dict"  -> DOMAIN x.v # {}

\* the outcome of a call or of an expression: a value or a raised exception
Return(x) == [kind |-> "return", value |-> x, exc |-> "none"]

Raise(e) == [kind |-> "raise", value |-> PyNone, exc |-> e]

\* str.upper() on the strings the model passes
Upper(str) ==
    CASE str = "usd" -> "USD"
      [] str = "eur" -> "EUR"
      [] str = "Eur" -> "EUR"
      [] str = "gbp" -> "GBP"
      [] str = "Jpy" -> "JPY"
      [] str = "jpy" -> "JPY"
      [] str = "cad" -> "CAD"
      [] str = "aud" -> "AUD"
      [] str = "xyz" -> "XYZ"
      [] str = "zzz" -> "ZZZ"
      [] OTHER -> str

\* the floats the model names
F_0_0 == FZero(0)

F_1_0 == Dbl(0, <<0, 0, 0, 128>>, 0 - 52)

F_0_92 == Dbl(0, <<15729, 11796, 17039, 235>>, 0 - 53)

F_0_79 == Dbl(0, <<24904, 10485, 7864, 202>>, 0 - 53)

F_150_0 == Dbl(0, <<0, 0, 0, 150>>, 0 - 45)

F_1_36 == Dbl(0, <<30147, 14417, 2621, 174>>, 0 - 52)

F_1_49 == Dbl(0, <<9175, 31457, 23592, 190>>, 0 - 52)

F_0_1 == Dbl(0, <<6554, 13107, 26214, 204>>, 0 - 56)

F_100_0 == Dbl(0, <<0, 0, 0, 200>>, 0 - 46)

F_m5_5 == Dbl(1, <<0, 0, 0, 176>>, 0 - 50)

F_0_5 == Dbl(0, <<0, 0, 0, 128>>, 0 - 53)

F_3_0 == Dbl(0, <<0, 0, 0, 192>>, 0 - 51)

F_5_0 == Dbl(0, <<0, 0, 0, 160>>, 0 - 50)

F_1e308 == Dbl(0, <<18592, 3031, 13262, 142>>, 971)

FALLBACK_RATES ==
    ("USD" :> F_1_0) @@ ("EUR" :> F_0_92) @@ ("GBP" :> F_0_79)
    @@ ("JPY" :> F_150_0) @@ ("CAD" :> F_1_36) @@ ("AUD" :> F_1_49)

(***************************************************************************)
(* get_rates                                                               *)
(***************************************************************************)
\* Renormalized, had the comprehension left the USD entry undivided
Renormalized_KeepUSD(base_rate) ==
    IF IsZero(base_rate) THEN Raise("ZeroDivisionError")
    ELSE Return(PyDict([k \in DOMAIN FALLBACK_RATES |->
                          IF k = "USD" THEN PyFloat(FALLBACK_RATES[k])
                          ELSE PyFloat(FDiv(FALLBACK_RATES[k], base_rate))]))

\* {k: v / base_rate for k, v in FALLBACK_RATES.items()}
Renormalized(base_rate) ==
    IF IsZero(base_rate) THEN Raise("ZeroDivisionError")
    ELSE Return(PyDict([k \in DOMAIN FALLBACK_RATES |->
                          PyFloat(FDiv(FALLBACK_RATES[k], base_rate))]))

\* FallbackBaseRate, had the default been EUR's rate
FallbackBaseRate_DefaultEUR(base) ==
    IF base \in DOMAIN FALLBACK_RATES THEN FALLBACK_RATES[base]
    ELSE FALLBACK_RATES["EUR"]

\* FALLBACK_RATES.get(base), with USD's rate when that is None
FallbackBaseRate(base) ==
    IF base \in DOMAIN FALLBACK_RATES THEN FALLBACK_RATES[base]
    ELSE FALLBACK_RATES["USD"]

\* the branch taken when requests is None
NoClientFallback(base) == Renormalized(FallbackBaseRate(base))

\* the except branch
ExceptFallback(base) == Renormalized(FallbackBaseRate(base))

\* data.get('rates')
DataGetRates(data) ==
    IF data.t # "dict" THEN Raise("AttributeError")
    ELSE IF "rates" \in DOMAIN data.v THEN Return(data.v["rates"])
    ELSE Return(PyNone)

\* TryFetch, had it not called raise_for_status
TryFetch_NoStatus(net) ==
    IF net.get # "ok" THEN Raise(net.get)
    ELSE IF ~net.json_ok THEN Raise("JSONDecodeError")
    ELSE LET got == DataGetRates(net.data)
         IN  IF got.kind = "raise" THEN got
             ELSE IF ~Truthy(got.value) THEN Raise("ValueError")
             ELSE got

\* the try block, given what the network answers: net.get is what
\* requests.get does ("ok" or the exception it raises), net.status_ok whether
\* raise_for_status passes, net.json_ok whether the body parses, net.data the
\* parsed body
TryFetch(net) ==
    IF net.get # "ok" THEN Raise(net.get)
    ELSE IF ~net.status_ok THEN Raise("HTTPError")
    ELSE IF ~net.json_ok THEN Raise("JSONDecodeError")
    ELSE LET got == DataGetRates(net.data)
         IN  IF got.kind = "raise" THEN got
             ELSE IF ~Truthy(got.value) THEN Raise("ValueError")
             ELSE got

\* CaughtByExcept, had the clause been `except requests.RequestException`
CaughtByExcept_RequestsOnly(e) ==
    e \in {"ConnectionError", "Timeout", "HTTPError"}

\* except Exception: every exception the try block raises is an Exception
CaughtByExcept(e) ==
    e \in {"ConnectionError", "Timeout", "HTTPError", "JSONDecodeError",
           "AttributeError", "ValueError"}

\* GetCalls, had get_rates tried the GET a second time
GetCalls_Retry(client) == IF client THEN 2 ELSE 0

\* the number of requests.get calls get_rates makes
GetCalls(client) == IF client THEN 1 ELSE 0

\* the try block's outcome t, through the except clause
GetRatesTried(b, t) ==
    IF t.kind = "raise" /\ CaughtByExcept(t.exc) THEN ExceptFallback(b)
    ELSE t

\* get_rates, had it not upper-cased base
get_rates_NoUpper(base_arg, client, a) ==
    IF ~client THEN NoClientFallback(base_arg)
    ELSE GetRatesTried(base_arg, TryFetch(a))

\* get_rates(base), with the HTTP client loaded or not (requests is None)
get_rates(base_arg, client, a) ==
    IF ~client THEN NoClientFallback(Upper(base_arg))
    ELSE GetRatesTried(Upper(base_arg), TryFetch(a))

(***************************************************************************)
(* convert                                                                 *)
(***************************************************************************)
\* key in container
PyIn(key, c) ==
    CASE c.t = "dict" -> Return(key \in DOMAIN c.v)
      [] c.t = "list" ->
            Return(\E i \in 1..Len(c.v) : c.v[i].t = "str" /\ c.v[i].v = key)
      [] OTHER -> Raise("TypeError")

\* container[key]
PyGetItem(c, key) ==
    IF c.t # "dict" THEN Raise("TypeError")
    ELSE IF key \in DOMAIN c.v THEN Return(c.v[key])
    ELSE Raise("KeyError")

\* PyTrueDiv, had line 68 multiplied by the rate
PyTrueDiv_Mul(a, x) ==
    IF x.t # "float" THEN Raise("TypeError")
    ELSE Return(PyFloat(FMul(a, x.v)))

\* a / x for a float a
PyTrueDiv(a, x) ==
    IF x.t # "float" THEN Raise("TypeError")
    ELSE IF IsZero(x.v) THEN Raise("ZeroDivisionError")
    ELSE Return(PyFloat(FDiv(a, x.v)))

\* a * x for a float a
PyMul(a, x) ==
    IF x.t # "float" THEN Raise("TypeError")
    ELSE Return(PyFloat(FMul(a, x.v)))

UNSUPPORTED == "ValueError: Unsupported currency"

\* NotSupported, had line 64 said `and`
NotSupported_And(f, t, r) ==
    LET inf == PyIn(f, r)
        int == PyIn(t, r)
    IN  IF inf.kind = "raise" THEN inf
        ELSE IF inf.value THEN Return(FALSE)
        ELSE IF int.kind = "raise" THEN int
        ELSE Return(~int.value)

\* line 64: from_currency not in rates or to_currency not in rates
NotSupported(f, t, r) ==
    LET inf == PyIn(f, r)
        int == PyIn(t, r)
    IN  IF inf.kind = "raise" THEN inf
        ELSE IF ~inf.value THEN Return(TRUE)
        ELSE IF int.kind = "raise" THEN int
        ELSE Return(~int.value)

\* ConvertTo, had line 69 returned amount_in_base
ConvertTo_NoMul(amount_in_base, rt) ==
    IF rt.kind = "raise" THEN rt ELSE Return(PyFloat(amount_in_base))

\* line 69: amount_in_base * rates[to_currency]
ConvertTo(amount_in_base, rt) ==
    IF rt.kind = "raise" THEN rt ELSE PyMul(amount_in_base, rt.value)

ConvertVia(amount_in_base, t, r) ==
    IF amount_in_base.kind = "raise" THEN amount_in_base
    ELSE ConvertTo(amount_in_base.value.v, PyGetItem(r, t))

\* line 68: amount_in_base = amount / rates[from_currency]
ConvertFrom(amt, t, r, rf) ==
    IF rf.kind = "raise" THEN rf
    ELSE ConvertVia(PyTrueDiv(amt, rf.value), t, r)

\* lines 64-65, bad the outcome of the test of line 64
ConvertChecked(amt, f, t, r, bad) ==
    IF bad.kind = "raise" THEN bad
    ELSE IF bad.value THEN Raise(UNSUPPORTED)
    ELSE ConvertFrom(amt, t, r, PyGetItem(r, f))

convert(amt, from_arg, to_arg, r) ==
    ConvertChecked(amt, Upper(from_arg), Upper(to_arg), r,
                   NotSupported(Upper(from_arg), Upper(to_arg), r))

(***************************************************************************)
(* The inputs.  The command line gives amount, from_currency, to_currency  *)
(* and --base; the network gives the answer to the one GET.                *)
(***************************************************************************)
\* how many of the amounts of AmountList, and of the answers of NetList, the
\* model draws its inputs from
MaxAmounts == 5

MaxNet == 14

AmountList == <<F_0_1, F_100_0, F_m5_5, F_0_0, F_1e308, F_3_0>>

Amounts == {AmountList[i] : i \in 1..MinOf(MaxAmounts, Len(AmountList))}

BaseArgs == {"USD", "eur", "Jpy", "xyz"}

CodeArgs == {"usd", "EUR", "JPY", "ZZZ"}

\* rates a live answer may hold: a good one, one with a zero rate, one with
\* a string for a rate
LiveGood ==
    PyDict(("USD" :> PyFloat(F_1_0)) @@ ("EUR" :> PyFloat(F_0_5))
           @@ ("JPY" :> PyFloat(F_3_0)))

LiveZero ==
    PyDict(("USD" :> PyFloat(F_0_0)) @@ ("EUR" :> PyFloat(F_0_5))
           @@ ("JPY" :> PyFloat(F_150_0)))

LiveStr ==
    PyDict(("USD" :> PyStr("1.0")) @@ ("EUR" :> PyFloat(F_0_5))
           @@ ("JPY" :> PyFloat(F_150_0)))

Body(ratesValue) ==
    PyDict(("base" :> PyStr("USD")) @@ ("rates" :> ratesValue))

Answer(data) ==
    [get |-> "ok", status_ok |-> TRUE, json_ok |-> TRUE, data |-> data]

NoAnswer ==
    [get |-> "none", status_ok |-> FALSE, json_ok |-> FALSE, data |-> PyNone]

NetList ==
    << [NoAnswer EXCEPT !.get = "ConnectionError"],
       [NoAnswer EXCEPT !.get = "Timeout"],
       [Answer(Body(LiveGood)) EXCEPT !.status_ok = FALSE],
       [Answer(PyNone) EXCEPT !.json_ok = FALSE],
       Answer(PyList(<<PyStr("USD")>>)),
       Answer(PyDict("success" :> PyNone)),
       Answer(Body(PyNone)),
       Answer(Body(EmptyDict)),
       Answer(Body(PyFloat(F_0_0))),
       Answer(Body(LiveGood)),
       Answer(Body(LiveZero)),
       Answer(Body(LiveStr)),
       Answer(Body(PyList(<<PyStr("USD"), PyStr("EUR")>>))),
       Answer(Body(PyFloat(F_5_0))),
       Answer(Body(PyList(<<>>))) >>

NetChoices == 1..MinOf(MaxNet, Len(NetList))

\* answer i of NetList; answer 0 is no answer, when no GET is made
NetAnswer(i) == IF i = 0 THEN NoAnswer ELSE NetList[i]

(***************************************************************************)
(* main: get_rates(args.base), then convert, then the report.              *)
(***************************************************************************)
VARIABLES
    requests,        \* whether `import requests` succeeded (requests is not None)
    base,            \* args.base
    amount,          \* args.amount
    from_currency,   \* args.from_currency
    to_currency,     \* args.to_currency
    pc,              \* where main is
    net,             \* the answer the GET got, NoAnswer when none was made
    n_get,           \* the requests.get calls made so far
    rates,           \* what get_rates returned
    result,          \* what convert returned
    error,           \* the exception main caught, "none" when none
    exit_code,       \* the process's exit status, -1 while it runs
    back             \* the law harness: what the conversion back returned

vars == <<requests, base, amount, from_currency, to_currency, pc, net, n_get,
          rates, result, error, exit_code, back>>

args == <<requests, base, amount, from_currency, to_currency>>

Init ==
    /\ requests \in BOOLEAN
    /\ base \in BaseArgs
    /\ amount \in Amounts
    /\ from_currency \in CodeArgs
    /\ to_currency \in CodeArgs
    /\ pc = "get_rates"
    /\ net = NoAnswer
    /\ n_get = 0
    /\ rates = Unset
    /\ result = Unset
    /\ error = "none"
    /\ exit_code = -1
    /\ back = Unset

\* line 80: rates = get_rates(args.base), the GET answered with a and
\* get_rates ending with out
GetRatesDone(a, out) ==
    /\ net' = a
    /\ n_get' = n_get + GetCalls(requests)
    /\ IF out.kind = "return"
       THEN /\ rates' = out.value
            /\ pc' = "convert"
            /\ UNCHANGED <<error, exit_code>>
       ELSE /\ rates' = rates
            /\ pc' = "done"
            /\ error' = out.exc
            /\ exit_code' = 1
    /\ UNCHANGED <<args, result, back>>

GetRates ==
    /\ pc = "get_rates"
    /\ \E i \in (IF requests THEN NetChoices ELSE {0}) :
          GetRatesDone(NetAnswer(i), get_rates(base, requests, NetAnswer(i)))

\* lines 81-85: convert ending with out, then print the result, or the
\* error and exit(1)
ConvertDone(out) ==
    /\ IF out.kind = "return"
       THEN /\ result' = out.value
            /\ exit_code' = 0
            /\ error' = error
       ELSE /\ result' = result
            /\ exit_code' = 1
            /\ error' = out.exc
    /\ pc' = "done"
    /\ UNCHANGED <<args, net, n_get, rates, back>>

Convert ==
    /\ pc = "convert"
    /\ ConvertDone(convert(amount, from_currency, to_currency, rates))

Next == GetRates \/ Convert

Spec == Init /\ [][Next]_vars

(***************************************************************************)
(* convert on its own: a rate mapping, two of its codes (or not) and an    *)
(* amount, converted and converted back.                                   *)
(***************************************************************************)
\* FALLBACK_RATES as convert takes it
FallbackDict == PyDict([k \in DOMAIN FALLBACK_RATES |-> PyFloat(FALLBACK_RATES[k])])

LawRates == <<FallbackDict, LiveGood>>

LawInit ==
    /\ requests = FALSE
    /\ base = "USD"
    /\ amount \in Amounts
    /\ from_currency \in CodeArgs
    /\ to_currency \in CodeArgs
    /\ pc = "forward"
    /\ net = NoAnswer
    /\ n_get = 0
    /\ \E i \in 1..(Len(LawRates) + 1) :
          rates = IF i <= Len(LawRates) THEN LawRates[i]
                  ELSE ExceptFallback("EUR").value
    /\ result = Unset
    /\ error = "none"
    /\ exit_code = -1
    /\ back = Unset

\* result = convert(amount, from_currency, to_currency, rates)
ForwardDone(out) ==
    /\ IF out.kind = "return"
       THEN /\ result' = out.value
            /\ pc' = "back"
            /\ error' = error
       ELSE /\ result' = result
            /\ pc' = "raised"
            /\ error' = out.exc
    /\ UNCHANGED <<args, net, n_get, rates, exit_code, back>>

Forward ==
    /\ pc = "forward"
    /\ ForwardDone(convert(amount, from_currency, to_currency, rates))

\* back = convert(result, to_currency, from_currency, rates)
BackDone(out) ==
    /\ IF out.kind = "return"
       THEN /\ back' = out.value
            /\ pc' = "round_trip"
            /\ error' = error
       ELSE /\ back' = back
            /\ pc' = "raised"
            /\ error' = out.exc
    /\ UNCHANGED <<args, net, n_get, rates, result, exit_code>>

Back ==
    /\ pc = "back"
    /\ BackDone(convert(result.v, to_currency, from_currency, rates))

LawNext == Forward \/ Back

LawSpec == LawInit /\ [][LawNext]_vars

(***************************************************************************)
(* What the properties are stated with.                                    *)
(***************************************************************************)
\* x is a normal double: finite, not zero, with all PREC bits of precision
Normal(x) == x.cls = "fin" /\ BitLen(x.m) = PREC

\* |X - Y| for naturals X and Y
AbsDiff(X, Y) == IF BCmp(X, Y) >= 0 THEN BSub(X, Y) ELSE BSub(Y, X)

\* |x - y| * 2^k <= |y| for the magnitudes X and Y of x and y on one scale
FCloseMag(same, X, Y, k) ==
    BCmp(BShl(IF same THEN AbsDiff(X, Y) ELSE BAdd(X, Y), k), Y) <= 0

FCloseAt(x, y, k, e0) ==
    FCloseMag(x.s = y.s \/ IsZero(x) \/ IsZero(y),
              BShl(x.m, x.e - e0), BShl(y.m, y.e - e0), k)

\* x and y are finite and |x - y| <= 2^-k * |y|
FClose(x, y, k) ==
    /\ x.cls = "fin"
    /\ y.cls = "fin"
    /\ FCloseAt(x, y, k, MinOf(x.e, y.e))

\* the answer is one the spec counts as a live success: the request completed,
\* the status is a success, the body parsed as JSON and holds a "rates" entry
\* that is present and not empty
PresentNonEmpty(v) ==
    CASE v.t = "none" -> FALSE
      [] v.t = "dict" -> DOMAIN v.v # {}
      [] v.t = "list" -> Len(v.v) > 0
      [] v.t = "float" -> ~IsZero(v.v)
      [] OTHER -> TRUE

LiveSuccess(a) ==
    /\ a.get = "ok"
    /\ a.status_ok
    /\ a.json_ok
    /\ a.data.t = "dict"
    /\ "rates" \in DOMAIN a.data.v
    /\ PresentNonEmpty(a.data.v["rates"])

\* get_rates has returned and it was on the fallback path
OnFallbackPath == pc # "get_rates" /\ (~requests \/ ~LiveSuccess(net))

\* the base argument names a currency of the Fallback Table, in any case
KnownBase == Upper(base) \in DOMAIN FALLBACK_RATES

\* rates is the Fallback Table with every entry divided by rate b
IsFallbackOver(r, b) ==
    /\ r.t = "dict"
    /\ DOMAIN r.v = DOMAIN FALLBACK_RATES
    /\ \A k \in DOMAIN FALLBACK_RATES :
          r.v[k] = PyFloat(FDiv(FALLBACK_RATES[k], b))

\* 1/0.92 as Python evaluates it, 1.0869565217391304
F_1_over_0_92 == Dbl(0, <<12822, 2849, 4274, 139>>, 0 - 52)

C2_UnsupportedIffNotAKey ==
    (pc = "done" /\ rates.t = "dict") =>
        /\ error = UNSUPPORTED <=>
              \/ Upper(from_currency) \notin DOMAIN rates.v
              \/ Upper(to_currency) \notin DOMAIN rates.v
        /\ error = UNSUPPORTED => result = Unset /\ exit_code = 1

\* the from code is a key, the to code is not: raised, no result
C2_Witness ==
    /\ pc = "done"
    /\ rates.t = "dict"
    /\ Upper(from_currency) \in DOMAIN rates.v
    /\ Upper(to_currency) \notin DOMAIN rates.v
    /\ error = UNSUPPORTED
    /\ result = Unset

\* C3: the unsupported-currency error is the only error that gets out of
\* get_rates followed by convert: main ends with a result or with that error.
C3_OnlyUnsupportedPropagates ==
    pc = "done" => error \in {"none", UNSUPPORTED}

\* C4: on the fallback path with a base that names a currency of the Fallback
\* Table, in any case, the mapping has exactly the six codes, maps the base
\* to 1.0 and every code X to FALLBACK_RATES[X] / FALLBACK_RATES[base]; with
\* base EUR the USD entry is 1/0.92.
C4_FallbackNormalizedToBase ==
    (OnFallbackPath /\ KnownBase) =>
        /\ IsFallbackOver(rates, FALLBACK_RATES[Upper(base)])
        /\ Cardinality(DOMAIN rates.v) = 6
        /\ rates.v[Upper(base)] = PyFloat(F_1_0)
        /\ Upper(base) = "EUR" => rates.v["USD"] = PyFloat(F_1_over_0_92)

\* base "eur" after a timeout: EUR maps to 1.0, USD to 1/0.92
C4_Witness ==
    /\ pc = "convert"
    /\ requests
    /\ net.get = "Timeout"
    /\ base = "eur"
    /\ rates.v["EUR"] = PyFloat(F_1_0)
    /\ rates.v["USD"] = PyFloat(F_1_over_0_92)

\* C5: on the fallback path with a base that is not in the Fallback Table,
\* get_rates returns the Fallback Table as it is, the six codes with their
\* USD values, and signals nothing.
C5_UnknownBaseGivesRawTable ==
    (OnFallbackPath /\ ~KnownBase) =>
        /\ rates.t = "dict"
        /\ DOMAIN rates.v = DOMAIN FALLBACK_RATES
        /\ \A k \in DOMAIN FALLBACK_RATES : rates.v[k] = PyFloat(FALLBACK_RATES[k])
        /\ pc = "convert" => error = "none"

\* base "xyz" without the HTTP client: the raw table
C5_Witness ==
    /\ pc = "convert"
    /\ ~requests
    /\ base = "xyz"
    /\ rates = FallbackDict
    /\ rates.v["EUR"] = PyFloat(F_0_92)

\* the rate rates holds for a code given on the command line
RateOf(code) == rates.v[Upper(code)].v

\* a conversion of amt through the rates rf and rt stayed in the range of the
\* normal doubles: neither the quotient nor the product overflowed or
\* underflowed (a zero amount stays zero)
InRange(amt, rf, out) ==
    IsZero(amt) \/ (Normal(FDiv(amt, rf)) /\ Normal(out))

\* C6, as the spec states it: converting A from X to Y and the result back
\* from Y to X gives A again within floating point tolerance, for every
\* finite A.
C6_RoundTrip ==
    pc = "round_trip" => FClose(back.v, amount, 40)

\* C6, amended: converting A from X to Y and the result back from Y to X
\* gives A again within a relative error of 2^-50, provided that neither
\* conversion overflows or underflows.
C6_RoundTripInRange ==
    (/\ pc = "round_trip"
     /\ InRange(amount, RateOf(from_currency), result.v)
     /\ InRange(result.v, RateOf(to_currency), back.v))
        => FClose(back.v, amount, 50)

\* 0.1 converted to another currency and back: close to 0.1, and not 0.1
C6_Witness ==
    /\ pc = "round_trip"
    /\ amount = F_0_1
    /\ Upper(from_currency) # Upper(to_currency)
    /\ ~FEq(back.v, amount)
    /\ InRange(amount, RateOf(from_currency), result.v)
    /\ InRange(result.v, RateOf(to_currency), back.v)
    /\ FClose(back.v, amount, 50)

\* C7, as the spec states it: convert(A, X, X, R) == A for every key X of R
\* and every amount A, zero and negative amounts included.
C7_Identity ==
    (pc \in {"back", "round_trip"} /\ Upper(from_currency) = Upper(to_currency))
        => FEq(result.v, amount)

\* C7, amended: convert(A, X, X, R) is A within a relative error of 2^-51,
\* zero and negative amounts included, provided that A / R[X] neither
\* overflows nor underflows; it need not be A itself.
C7_IdentityToRounding ==
    (/\ pc \in {"back", "round_trip"}
     /\ Upper(from_currency) = Upper(to_currency)
     /\ InRange(amount, RateOf(from_currency), result.v))
        => FClose(result.v, amount, 51)

\* 0.1 from JPY to JPY: close to 0.1, and not 0.1
C7_Witness ==
    /\ pc = "back"
    /\ from_currency = "JPY"
    /\ to_currency = "JPY"
    /\ amount = F_0_1
    /\ ~FEq(result.v, amount)
    /\ FClose(result.v, amount, 51)

\* C8: get_rates returns the live mapping, unchanged, exactly when the HTTP
\* client is there, the request completes, the status is a success, the body
\* parses as JSON and its rates are present and not empty; in every other
\* case it returns the Fallback Table over the requested base's rate, all of
\* it, never a mix of the two.
C8_LiveOrFallbackNeverMixed ==
    pc # "get_rates" =>
        IF requests /\ LiveSuccess(net)
        THEN rates = net.data.v["rates"]
        ELSE IsFallbackOver(rates, IF KnownBase THEN FALLBACK_RATES[Upper(base)]
                                   ELSE F_1_0)

\* a live success: the mapping of the body is what main holds
C8_Witness ==
    /\ pc = "convert"
    /\ requests
    /\ LiveSuccess(net)
    /\ rates = LiveGood
    /\ net.data.v["rates"] = LiveGood

\* what get_rates returns for the base of the run when the one request fails
\* to connect
AfterFailedRequest ==
    get_rates(base, TRUE, [NoAnswer EXCEPT !.get = "ConnectionError"]).value

\* C9: a run makes at most one request and never tries again: none before
\* get_rates, exactly one after it when the HTTP client is there, none at all
\* when it is not, and then the mapping is the one a failed request gives;
\* the request comes before the conversion, and after it main ends: at its
\* end, and only there, it has exit status 0 or 1 and no step is left.
C9_AtMostOneRequest ==
    /\ n_get <= 1
    /\ pc = "get_rates" => n_get = 0 /\ result = Unset
    /\ (pc # "get_rates" /\ requests) => n_get = 1
    /\ ~requests => n_get = 0
    /\ (pc # "get_rates" /\ ~requests) => rates = AfterFailedRequest
    /\ pc = "done" => ~ENABLED Next
    /\ pc = "done" <=> exit_code \in {0, 1}

\* a request that failed to connect, made once, and the run is over
C9_Witness ==
    /\ pc = "done"
    /\ requests
    /\ net.get = "ConnectionError"
    /\ n_get = 1
    /\ rates = AfterFailedRequest
    /\ ~ENABLED Next

\* the conversion of the run over the fallback mapping for base b
FallbackConvert(b) ==
    convert(amount, from_currency, to_currency, get_rates(b, FALSE, NoAnswer).value)

\* amount * F[to] / F[from] over the Fallback Table
DirectConvert ==
    FDiv(FMul(amount, FALLBACK_RATES[Upper(to_currency)]),
         FALLBACK_RATES[Upper(from_currency)])

\* main ended with a result computed from a fallback mapping
FallbackResult == pc = "done" /\ OnFallbackPath /\ error = "none"

\* the conversion of the run over the fallback mapping for base b stays in
\* range
FallbackInRange(b) ==
    InRange(amount,
            get_rates(b, FALSE, NoAnswer).value.v[Upper(from_currency)].v,
            FallbackConvert(b).value.v)

\* C10, as the spec states it: over fallback mappings the result of a
\* conversion does not depend on the base: it is the same for every base and
\* it is amount * F[to] / F[from].
C10_BaseIndependent ==
    FallbackResult =>
        /\ \A b \in BaseArgs :
              /\ FallbackConvert(b).kind = "return"
              /\ FEq(FallbackConvert(b).value.v, result.v)
        /\ FEq(result.v, DirectConvert)

\* C10, amended: over fallback mappings the base changes the result of a
\* conversion by rounding error only: the results for any two bases, and
\* amount * F[to] / F[from], agree within a relative error of 2^-49, provided
\* that no conversion overflows or underflows; they need not be equal.
C10_BaseIndependentToRounding ==
    (FallbackResult /\ InRange(amount, RateOf(from_currency), result.v)) =>
        /\ \A b \in BaseArgs :
              FallbackInRange(b) => FClose(FallbackConvert(b).value.v, result.v, 49)
        /\ Normal(FMul(amount, FALLBACK_RATES[Upper(to_currency)]))
              => FClose(result.v, DirectConvert, 49)

\* 0.1 USD to EUR over base JPY: close to the result over base USD, and not
\* that result
C10_Witness ==
    /\ FallbackResult
    /\ base = "Jpy"
    /\ amount = F_0_1
    /\ from_currency = "usd"
    /\ to_currency = "EUR"
    /\ ~FEq(result.v, FallbackConvert("USD").value.v)
    /\ FClose(result.v, FallbackConvert("USD").value.v, 49)
    /\ FClose(result.v, DirectConvert, 49)

=============================================================================
